---- MODULE Spec2Model ----
(***************************************************************************)
(* Model of the API spec linter (linter.py): parse_api_routes builds the   *)
(* code route table from the decorated function definitions of a Python    *)
(* file, parse_api_spec builds the spec table from an OpenAPI JSON         *)
(* document, and run_linter reconciles the two and returns (pass, exit).   *)
(*                                                                         *)
(* A Python str is a sequence of one-character strings, so that str        *)
(* replacement and the substring test `a in b` are computed, not assumed.  *)
(***************************************************************************)
EXTENDS Integers, Sequences, FiniteSets, TLC

(* ------------------------------ bounds -------------------------------- *)
\* number of function definitions ast.walk visits in one source file
MaxDefs == 2
\* number of entries of the spec document's "paths" object
MaxPaths == 2

(* --------------------------- string literals -------------------------- *)
s_user == <<"/", "u", "s", "e", "r">>
s_user_int_id == <<"/", "u", "s", "e", "r", "/", "<", "i", "n", "t", ":", "i", "d", ">">>
s_user_angle_id == <<"/", "u", "s", "e", "r", "/", "<", "i", "d", ">">>
s_user_brace_id == <<"/", "u", "s", "e", "r", "/", "{", "i", "d", "}">>
s_health == <<"/", "h", "e", "a", "l", "t", "h">>
s_create_user_path == <<"/", "c", "r", "e", "a", "t", "e", "_", "u", "s", "e", "r">>
create_user == <<"c", "r", "e", "a", "t", "e", "_", "u", "s", "e", "r">>
n_get_user == <<"g", "e", "t", "_", "u", "s", "e", "r">>
n_update_user == <<"u", "p", "d", "a", "t", "e", "_", "u", "s", "e", "r">>
n_health_check == <<"h", "e", "a", "l", "t", "h", "_", "c", "h", "e", "c", "k">>
n_not_an_api_route == <<"n", "o", "t", "_", "a", "n", "_", "a", "p", "i", "_", "r", "o", "u", "t", "e">>
n_post == <<"p", "o", "s", "t">>
n_signup == <<"s", "i", "g", "n", "u", "p">>
n_show_user == <<"s", "h", "o", "w", "_", "u", "s", "e", "r">>
n_dynamic == <<"d", "y", "n", "a", "m", "i", "c">>
username == <<"u", "s", "e", "r", "n", "a", "m", "e">>
email == <<"e", "m", "a", "i", "l">>
password == <<"p", "a", "s", "s", "w", "o", "r", "d">>
id == <<"i", "d">>
self == <<"s", "e", "l", "f">>
user == <<"u", "s", "e", "r">>
verbose == <<"v", "e", "r", "b", "o", "s", "e">>

(* ----------------------------- str helpers ---------------------------- *)
\* str.replace(old, new) for one-character old and new
Replace(s, old, new) == [i \in 1..Len(s) |-> IF s[i] = old THEN new ELSE s[i]]

\* the str test `sub in s`
Contains(sub, s) ==
    \E i \in 0..(Len(s) - Len(sub)) : SubSeq(s, i + 1, i + Len(sub)) = sub

\* the elements of a list, as set(list) builds them
Range(f) == {f[i] : i \in 1..Len(f)}

(* ------------------------- the source file (AST) ---------------------- *)
\* Decorator expressions.  call/attr: the decorator is a Call whose func is
\* an Attribute named attr.  args: the node types of the positional
\* arguments; only args[0] is read.
\*   Constant  - a literal; str holds it when it is a string (isStr)
\*   Name      - a variable (no .value attribute)
\*   Attribute - obj.attr (its .value is the AST node of obj)
StrArg(s) == [node |-> "Constant", isStr |-> TRUE, str |-> s]
IntArg == [node |-> "Constant", isStr |-> FALSE, str |-> <<>>]
NameArg == [node |-> "Name", isStr |-> FALSE, str |-> <<>>]
AttrArg == [node |-> "Attribute", isStr |-> FALSE, str |-> <<>>]
RouteDeco(args) == [call |-> TRUE, attr |-> "route", args |-> args]
PlainDeco == [call |-> FALSE, attr |-> "", args |-> <<>>]
OtherCallDeco == [call |-> TRUE, attr |-> "before_request", args |-> <<>>]

\* A FunctionDef node: name, decorator_list, args.args (the positional
\* parameters, the receiver of a method included), and whether the def is a
\* method of a class (its first parameter is then the implicit receiver).
Def(name, decos, args, method) ==
    [name |-> name, decorator_list |-> decos, args |-> args, method |-> method]

\* The function definitions a source file is built from.
FunctionDefs == <<
    Def(n_get_user, <<RouteDeco(<<StrArg(s_user_int_id)>>)>>, <<id>>, FALSE),
    Def(create_user, <<RouteDeco(<<StrArg(s_user)>>)>>,
        <<username, email, password>>, FALSE),
    Def(n_update_user, <<RouteDeco(<<StrArg(s_user)>>)>>, <<username, email>>, FALSE),
    Def(n_health_check,
        <<PlainDeco, OtherCallDeco, RouteDeco(<<StrArg(s_health)>>),
          RouteDeco(<<StrArg(s_create_user_path)>>)>>, <<>>, FALSE),
    Def(n_not_an_api_route, <<>>, <<password>>, FALSE),
    Def(n_post, <<RouteDeco(<<StrArg(s_user)>>)>>, <<self, user, email>>, TRUE),
    Def(n_dynamic, <<RouteDeco(<<NameArg>>)>>, <<id>>, FALSE),
    Def(n_dynamic, <<RouteDeco(<<AttrArg>>)>>, <<id>>, FALSE),
    Def(n_dynamic, <<RouteDeco(<<>>)>>, <<id>>, FALSE),
    Def(n_dynamic, <<RouteDeco(<<IntArg>>)>>, <<id>>, FALSE),
    Def(n_signup, <<RouteDeco(<<StrArg(s_create_user_path)>>)>>, <<username>>, FALSE),
    Def(n_show_user, <<RouteDeco(<<StrArg(s_user_angle_id)>>)>>, <<id, verbose>>, FALSE)
>>

(* ---------------------- the spec document (JSON) ---------------------- *)
\* The value reached by path_item["post"]["requestBody"]["content"]
\* ["application/json"]["schema"]["properties"]: depth subscriptions
\* succeed, and then
\*   tail = "dict"    (depth = 5) properties is an object with keys props
\*   tail = "missing" the object reached lacks the next key
\*   tail = "scalar"  the value reached is not an object (null, true, a
\*                    number, a string, an array)
ChainLen == 5
Body(depth, tail, props) == [depth |-> depth, tail |-> tail, props |-> props]
Param(name, in) == [name |-> name, in |-> in]

\* A "paths" entry: the path, whether the path item has a "post" key, the
\* shape of the post operation's request body, the path-level "parameters".
Item(path, hasPost, body, parameters) ==
    [path |-> path, hasPost |-> hasPost, body |-> body, parameters |-> parameters]

\* The path items a spec document is built from.
PathItems == <<
    Item(s_user, TRUE, Body(5, "dict", {username, email}), <<>>),
    Item(s_user, TRUE, Body(0, "missing", {}), <<>>),
    Item(s_user_brace_id, TRUE, Body(4, "missing", {}),
         <<Param(id, "path"), Param(verbose, "query")>>),
    Item(s_user_brace_id, FALSE, Body(0, "missing", {}), <<Param(id, "path")>>),
    Item(s_health, TRUE, Body(1, "scalar", {}), <<>>),
    Item(s_health, TRUE, Body(4, "scalar", {}), <<Param(id, "path")>>),
    Item(s_create_user_path, TRUE, Body(5, "dict", {username}), <<>>),
    Item(s_health, TRUE, Body(5, "scalar", {}), <<>>)
>>

\* The top-level shapes of the spec file: not JSON at all, a JSON array, an
\* object without a "paths" key, an object with one.
SpecKinds == {"invalid", "array", "nopaths", "paths"}

(* ------------------------------- state -------------------------------- *)
VARIABLES
    pc,              \* position in run_linter
    visited,         \* indices (in FunctionDefs) of the defs walked so far
    code_routes,     \* dict under construction / returned by parse_api_routes
    spec_kind,       \* top-level shape of the spec file, "unread" before load
    seen,            \* indices (in PathItems) of the "paths" entries iterated
    spec_endpoints,  \* dict under construction / returned by parse_api_spec
    idx,             \* number of code routes the comparison loop has taken
    mismatches,      \* the findings printed so far
    mismatch_found,  \* the flag of run_linter
    error,           \* the exception raised, if any, and where
    result           \* what run_linter returned

vars == <<pc, visited, code_routes, spec_kind, seen, spec_endpoints, idx,
          mismatches, mismatch_found, error, result>>

NoError == [type |-> "none", at |-> "none"]
NoResult == [status |-> "running", pass |-> FALSE, exit |-> 0]

(* ------------------------------- dicts -------------------------------- *)
\* A dict is the sequence of its (key, value) entries in insertion order.
Keys(d) == {d[i].key : i \in 1..Len(d)}
Get(d, k) == (CHOOSE i \in 1..Len(d) : d[i].key = k)
\* d[k] |= v: a table that merges the handlers of one path
Put_Union(d, k, v) ==
    IF k \in Keys(d)
    THEN [d EXCEPT ![Get(d, k)] = [key |-> k, params |-> @.params \cup v]]
    ELSE Append(d, [key |-> k, params |-> v])

\* d[k] = v
Put(d, k, v) ==
    IF k \in Keys(d)
    THEN [d EXCEPT ![Get(d, k)] = [key |-> k, params |-> v]]
    ELSE Append(d, [key |-> k, params |-> v])
Lookup(d, k) == d[Get(d, k)].params

\* dict keys: a str, a non-str constant, or an AST node (hashed by identity,
\* id is the position in the walk of the def that carries it)
StrKey(s) == [kind |-> "str", val |-> s, id |-> 0]
ConstKey == [kind |-> "const", val |-> <<>>, id |-> 0]
NodeKey(pos) == [kind |-> "node", val |-> <<>>, id |-> pos]

(* -------------------------- parse_api_routes -------------------------- *)
\* the decorator test of lines 26-28
IsRoute(decorator) == decorator.call /\ decorator.attr = "route"

\* index of the first decorator of the list that passes the test, 0 if none
\* (the loop breaks at the first one)
FirstRoute(decos) ==
    IF \E i \in 1..Len(decos) : IsRoute(decos[i])
    THEN CHOOSE i \in 1..Len(decos) :
             IsRoute(decos[i]) /\ \A j \in 1..(i - 1) : ~IsRoute(decos[j])
    ELSE 0

\* decorator.args[0].value for the def walked at position pos:
\* IndexError without positional arguments, AttributeError for a node type
\* without a .value attribute, otherwise whatever .value holds.
RoutePath(args, pos) ==
    IF Len(args) = 0 THEN [exc |-> "IndexError", key |-> ConstKey]
    ELSE IF args[1].node = "Name" THEN [exc |-> "AttributeError", key |-> ConstKey]
    ELSE IF args[1].node = "Attribute" THEN [exc |-> "none", key |-> NodeKey(pos)]
    ELSE IF args[1].isStr THEN [exc |-> "none", key |-> StrKey(args[1].str)]
    ELSE [exc |-> "none", key |-> ConstKey]

\* params = [arg.arg for arg in node.args.args]; set(params)
ParamSet(node) == Range(node.args)

\* what run_linter returns from its except clause
AbortResult == [status |-> "returned", pass |-> FALSE, exit |-> 1]

\* a verdict whose exit code ignores the flag
Verdict_ExitZero(found) ==
    IF found THEN [status |-> "returned", pass |-> FALSE, exit |-> 0]
    ELSE [status |-> "returned", pass |-> TRUE, exit |-> 0]

\* what run_linter returns after the comparison loop
Verdict(found) ==
    IF found THEN [status |-> "returned", pass |-> FALSE, exit |-> 1]
    ELSE [status |-> "returned", pass |-> TRUE, exit |-> 0]

\* an uncaught exception leaves run_linter; the interpreter exits with 1
Uncaught == [status |-> "raised", pass |-> FALSE, exit |-> 1]

Init ==
    /\ pc = "parse_code"
    /\ visited = <<>>
    /\ code_routes = <<>>
    /\ spec_kind = "unread"
    /\ seen = <<>>
    /\ spec_endpoints = <<>>
    /\ idx = 0
    /\ mismatches = {}
    /\ mismatch_found = FALSE
    /\ error = NoError
    /\ result = NoResult

\* an except clause that reports the exception and carries on
Abort_Swallow(type, at) ==
    /\ error' = [type |-> type, at |-> at]
    /\ UNCHANGED <<pc, result>>

\* an exception inside the try block of run_linter: caught, reported, and
\* run_linter returns
Abort(type, at) ==
    /\ error' = [type |-> type, at |-> at]
    /\ result' = AbortResult
    /\ pc' = "done"

\* ast.parse: the source is syntactically valid or SyntaxError is raised
ParseSource ==
    /\ pc = "parse_code"
    /\ \E valid \in BOOLEAN :
        IF valid
        THEN pc' = "walk" /\ UNCHANGED <<error, result>>
        ELSE Abort("SyntaxError", "ast.parse")
    /\ UNCHANGED <<visited, code_routes, spec_kind, seen, spec_endpoints, idx,
                   mismatches, mismatch_found>>

\* one iteration of the ast.walk loop on a FunctionDef node
VisitNode(n) ==
    /\ pc = "walk"
    /\ Len(visited) < MaxDefs
    /\ visited' = Append(visited, n)
    /\ LET node == FunctionDefs[n]
           r == FirstRoute(node.decorator_list)
           route_path == RoutePath(node.decorator_list[r].args, Len(visited) + 1)
       IN  IF r = 0
           THEN UNCHANGED <<pc, code_routes, error, result>>
           ELSE IF route_path.exc # "none"
           THEN Abort(route_path.exc, "decorator.args") /\ UNCHANGED code_routes
           ELSE /\ code_routes' = Put(code_routes, route_path.key, ParamSet(node))
                /\ UNCHANGED <<pc, error, result>>
    /\ UNCHANGED <<spec_kind, seen, spec_endpoints, idx, mismatches, mismatch_found>>

\* the walk is exhausted; parse_api_routes returns routes
ReturnRoutes ==
    /\ pc = "walk"
    /\ pc' = "load_spec"
    /\ UNCHANGED <<visited, code_routes, spec_kind, seen, spec_endpoints, idx,
                   mismatches, mismatch_found, error, result>>

(* --------------------------- parse_api_spec --------------------------- *)
\* path.replace("{", "<").replace("}", ">")
normalized_path(path) == Replace(Replace(path, "{", "<"), "}", ">")

\* The try block of lines 61-66: the subscript chain and props.keys().
\* A missing key raises KeyError, which is swallowed; subscripting a value
\* that is not an object raises TypeError and calling .keys() on one raises
\* AttributeError, which are not.
BodyProps(body) ==
    IF body.tail = "dict" THEN [exc |-> "none", props |-> body.props]
    ELSE IF body.tail = "missing" THEN [exc |-> "none", props |-> {}]
    ELSE IF body.depth < ChainLen THEN [exc |-> "TypeError", props |-> {}]
    ELSE [exc |-> "AttributeError", props |-> {}]

\* the loop of lines 69-71 over the path-level parameters
PathParams(parameters) ==
    {parameters[i].name : i \in {j \in 1..Len(parameters) : parameters[j].in = "path"}}

\* json.load and spec.get("paths", {})
LoadSpec(kind) ==
    /\ pc = "load_spec"
    /\ spec_kind' = kind
    /\ IF kind = "invalid" THEN Abort("JSONDecodeError", "json.load")
       ELSE IF kind = "array" THEN Abort("AttributeError", "spec.get")
       ELSE pc' = "paths" /\ UNCHANGED <<error, result>>
    /\ UNCHANGED <<visited, code_routes, seen, spec_endpoints, idx, mismatches,
                   mismatch_found>>

\* one iteration of the loop over spec["paths"].items(); the keys of a JSON
\* object are distinct
VisitPath(k) ==
    /\ pc = "paths"
    /\ spec_kind = "paths"
    /\ Len(seen) < MaxPaths
    /\ \A i \in 1..Len(seen) : PathItems[seen[i]].path # PathItems[k].path
    /\ seen' = Append(seen, k)
    /\ LET path_item == PathItems[k]
           props == BodyProps(path_item.body)
           params == props.props \cup PathParams(path_item.parameters)
       IN  IF ~path_item.hasPost
           THEN UNCHANGED <<pc, spec_endpoints, error, result>>
           ELSE IF props.exc # "none"
           THEN Abort(props.exc, "requestBody") /\ UNCHANGED spec_endpoints
           ELSE /\ spec_endpoints' =
                      Put(spec_endpoints, StrKey(normalized_path(path_item.path)), params)
                /\ UNCHANGED <<pc, error, result>>
    /\ UNCHANGED <<visited, code_routes, spec_kind, idx, mismatches, mismatch_found>>

\* the loop is exhausted; parse_api_spec returns endpoints
ReturnEndpoints ==
    /\ pc = "paths"
    /\ pc' = "compare"
    /\ UNCHANGED <<visited, code_routes, spec_kind, seen, spec_endpoints, idx,
                   mismatches, mismatch_found, error, result>>

(* ------------------------------ run_linter ---------------------------- *)
\* the set difference without the test of line 112
ExtraInCode_NoSuppress(path, code_params, spec_params) == code_params \ spec_params

\* the names of lines 106-114 that set mismatch_found
ExtraInCode(path, code_params, spec_params) ==
    {param \in code_params \ spec_params : ~Contains(param, path)}

\* the test of line 98 on a str path
MustDocument(path) == Contains(create_user, path)

Finding(kind, route, param) == [kind |-> kind, route |-> route, param |-> param]

\* one iteration of the loop over code_routes.items()
CompareRoute ==
    /\ pc = "compare"
    /\ idx < Len(code_routes)
    /\ idx' = idx + 1
    /\ LET path == code_routes[idx + 1].key
           code_params == code_routes[idx + 1].params
       IN  IF path \notin Keys(spec_endpoints)
           THEN IF path.kind # "str"
                THEN \* `"create_user" in path` on a value that is not iterable
                     /\ error' = [type |-> "TypeError", at |-> "compare"]
                     /\ result' = Uncaught
                     /\ pc' = "done"
                     /\ UNCHANGED <<mismatches, mismatch_found>>
                ELSE IF MustDocument(path.val)
                THEN /\ mismatches' = mismatches \cup {Finding("missing-route", path, <<>>)}
                     /\ mismatch_found' = TRUE
                     /\ UNCHANGED <<pc, error, result>>
                ELSE UNCHANGED <<pc, error, result, mismatches, mismatch_found>>
           ELSE LET extra == ExtraInCode(path.val, code_params,
                                         Lookup(spec_endpoints, path))
                IN  /\ mismatches' = mismatches \cup
                           {Finding("extra-in-code", path, param) : param \in extra}
                    /\ mismatch_found' = (mismatch_found \/ extra # {})
                    /\ UNCHANGED <<pc, error, result>>
    /\ UNCHANGED <<visited, code_routes, spec_kind, seen, spec_endpoints>>

\* lines 116-122
Return ==
    /\ pc = "compare"
    /\ idx = Len(code_routes)
    /\ result' = Verdict(mismatch_found)
    /\ pc' = "done"
    /\ UNCHANGED <<visited, code_routes, spec_kind, seen, spec_endpoints, idx,
                   mismatches, mismatch_found, error>>

Next ==
    \/ ParseSource
    \/ \E n \in 1..Len(FunctionDefs) : VisitNode(n)
    \/ ReturnRoutes
    \/ \E kind \in SpecKinds : LoadSpec(kind)
    \/ \E k \in 1..Len(PathItems) : VisitPath(k)
    \/ ReturnEndpoints
    \/ CompareRoute
    \/ Return

Spec == Init /\ [][Next]_vars

(* ----------------------- vocabulary of the claims --------------------- *)
\* the def walked at position p, its routing decorator and its first argument
DefAt(p) == FunctionDefs[visited[p]]
IsHandler(p) == FirstRoute(DefAt(p).decorator_list) # 0
RouteArgs(p) == DefAt(p).decorator_list[FirstRoute(DefAt(p).decorator_list)].args
\* the first argument of the routing decorator is a static string literal
StaticPath(p) == IsHandler(p) /\ Len(RouteArgs(p)) > 0 /\ RouteArgs(p)[1].isStr
RawPath(p) == RouteArgs(p)[1].str
\* the def walked at position p was entered into the code table under key
StoredUnder(p, key) ==
    /\ IsHandler(p)
    /\ RoutePath(RouteArgs(p), p).exc = "none"
    /\ RoutePath(RouteArgs(p), p).key = key
\* the last def walked that was entered under key
LastDef(key) ==
    DefAt(CHOOSE p \in 1..Len(visited) :
              /\ StoredUnder(p, key)
              /\ \A q \in (p + 1)..Len(visited) : ~StoredUnder(q, key))
\* the findings of one kind reported for one route
Reported(kind, key) == {m.param : m \in {x \in mismatches : x.kind = kind /\ x.route = key}}
\* the run failed inside one of the two extractors
ExtractionFailed == error.at \in {"ast.parse", "decorator.args", "json.load",
                                  "spec.get", "requestBody"}
Returned == pc = "done" /\ result.status = "returned"

(* -------------------------------- C1 ---------------------------------- *)
\* C1: when run_linter returns after both extractions succeeded, pass is
\* true iff no finding was reported; the exit code is 0 exactly when pass is
\* true and 1 otherwise, and it is 1 after any finding or extraction failure.
C1_VerdictMatchesFindings ==
    Returned =>
        /\ ~ExtractionFailed => (result.pass <=> mismatches = {})
        /\ result.exit = (IF result.pass THEN 0 ELSE 1)
        /\ (mismatches # {} \/ ExtractionFailed) => result.exit = 1

C1_Witness ==
    /\ Returned
    /\ idx = 2
    /\ \E i \in 1..Len(code_routes) : code_routes[i].key \in Keys(spec_endpoints)
    /\ mismatches = {}
    /\ result.pass
    /\ result.exit = 0

(* -------------------------------- C2 ---------------------------------- *)
\* C2: for every compared route present in both tables, the extra-in-code
\* findings are exactly the names of codeParams - specParams that are not a
\* substring of the route key; code {username, email, password} against
\* spec {username, email} on /user gives exactly the finding for password.
C2_ExtraInCodeExact ==
    /\ \A i \in 1..idx :
         LET key == code_routes[i].key
         IN  key \in Keys(spec_endpoints) =>
               /\ \A name \in code_routes[i].params :
                    name \in Reported("extra-in-code", key) <=>
                        /\ name \notin Lookup(spec_endpoints, key)
                        /\ ~Contains(name, key.val)
               /\ Reported("extra-in-code", key) \subseteq code_routes[i].params
               /\ Reported("missing-route", key) = {}
    /\ \A i \in 1..idx :
         /\ code_routes[i] = [key |-> StrKey(s_user),
                              params |-> {username, email, password}]
         /\ StrKey(s_user) \in Keys(spec_endpoints)
         /\ Lookup(spec_endpoints, StrKey(s_user)) = {username, email}
         => Reported("extra-in-code", StrKey(s_user)) = {password}

C2_Witness ==
    /\ Returned
    /\ \E i \in 1..idx :
         /\ code_routes[i].key = StrKey(s_user)
         /\ code_routes[i].params = {self, user, email}
    /\ StrKey(s_user) \in Keys(spec_endpoints)
    /\ Lookup(spec_endpoints, StrKey(s_user)) = {username, email}
    /\ mismatches = {Finding("extra-in-code", StrKey(s_user), self)}

(* -------------------------------- C3 ---------------------------------- *)
\* The canonical form of section 4.1: every delimiter in one convention and
\* the type prefix of a placeholder (<int:x>) stripped.
InTypePrefix(a, i) ==
    \E o \in 1..(i - 1) : \E c \in i..Len(a) :
        /\ a[o] = "<"
        /\ a[c] = ":"
        /\ \A j \in (o + 1)..c : a[j] \notin {"<", ">"}
Canonical(path) ==
    LET a == Replace(Replace(path, "{", "<"), "}", ">")
        F[i \in 0..Len(a)] ==
            IF i = 0 THEN <<>>
            ELSE IF InTypePrefix(a, i) THEN F[i - 1]
            ELSE Append(F[i - 1], a[i])
    IN  F[Len(a)]

\* C3: a code path and a spec path that differ only in delimiter convention
\* or type prefix are stored under the same route key.
C3_ConventionAgnostic ==
    \A p \in 1..Len(visited) : \A q \in 1..Len(seen) :
        /\ StaticPath(p)
        /\ PathItems[seen[q]].hasPost
        /\ ~ExtractionFailed
        /\ Canonical(RawPath(p)) = Canonical(PathItems[seen[q]].path)
        => StoredUnder(p, StrKey(normalized_path(PathItems[seen[q]].path)))

(* -------------------------------- C4 ---------------------------------- *)
\* C4: a handler whose routing decorator has no static string literal as
\* first argument is left out of the code table and does not abort the run,
\* and no entry is stored under a key that is not a path string.
C4_UnresolvedRouteSkipped ==
    \A p \in 1..Len(visited) :
        IsHandler(p) /\ ~StaticPath(p) =>
            /\ error.at \notin {"decorator.args", "compare"}
            /\ \A i \in 1..Len(code_routes) : code_routes[i].key.kind = "str"

(* -------------------------------- C5 ---------------------------------- *)
\* C5: a path item with a post entry never makes the spec extractor fail
\* because of its request body: a missing key or a non-object value along
\* requestBody/content/application/json/schema contributes no body
\* parameter, and the path is entered with its path-level path parameters.
C5_BodyShapeTolerated ==
    \A q \in 1..Len(seen) :
        LET path_item == PathItems[seen[q]]
            key == StrKey(normalized_path(path_item.path))
        IN  path_item.hasPost /\ path_item.body.depth < ChainLen =>
              /\ error.at # "requestBody"
              /\ key \in Keys(spec_endpoints)
              /\ Lookup(spec_endpoints, key) = PathParams(path_item.parameters)

(* -------------------------------- C6 ---------------------------------- *)
\* C6: after a run that returned, a code route absent from the spec table
\* has a finding iff the name of its handler contains 'create_user'.
C6_MarkerInHandlerName ==
    Returned /\ ~ExtractionFailed =>
        \A i \in 1..Len(code_routes) :
            code_routes[i].key \notin Keys(spec_endpoints) =>
                ((\E m \in mismatches : m.route = code_routes[i].key)
                    <=> Contains(create_user, LastDef(code_routes[i].key).name))

(* -------------------------------- C7 ---------------------------------- *)
\* C7: a spec document without a "paths" table makes the spec extraction
\* fail: the run ends with exit code 1 and does not pass.
C7_MissingPathsFails ==
    pc = "done" /\ spec_kind = "nopaths" =>
        /\ error.at \in {"json.load", "spec.get"}
        /\ result.exit = 1
        /\ ~result.pass

(* -------------------------------- C8 ---------------------------------- *)
\* C8: after a failure in either extractor the run is over: no route has
\* been compared, no finding is reported, and run_linter has returned
\* pass = false with exit code 1.
C8_FailFast ==
    ExtractionFailed =>
        /\ pc = "done"
        /\ idx = 0
        /\ mismatches = {}
        /\ ~mismatch_found
        /\ result = [status |-> "returned", pass |-> FALSE, exit |-> 1]

C8_Witness ==
    /\ error = [type |-> "JSONDecodeError", at |-> "json.load"]
    /\ Len(code_routes) = 2
    /\ result.exit = 1
    /\ idx = 0

(* -------------------------------- C9 ---------------------------------- *)
\* the implicit receiver of a method: its first positional parameter
Receiver(node) == IF node.method /\ Len(node.args) > 0 THEN {node.args[1]} ELSE {}

\* C9: the parameter set stored for a handler is its declared parameter
\* names without the implicit receiver, and the receiver is never reported
\* as an extra-in-code parameter.
C9_ReceiverExcluded ==
    \A i \in 1..Len(code_routes) :
        LET node == LastDef(code_routes[i].key)
        IN  /\ code_routes[i].params = Range(node.args) \ Receiver(node)
            /\ Reported("extra-in-code", code_routes[i].key) \cap Receiver(node) = {}

(* -------------------------------- C10 --------------------------------- *)
\* C10: the code table holds at most one entry per path, the entry holds
\* the parameter names of the last handler walked that declares the path
\* (those of earlier handlers are gone), and only these are compared.
C10_LastHandlerWins ==
    /\ \A i, j \in 1..Len(code_routes) :
          code_routes[i].key = code_routes[j].key => i = j
    /\ \A i \in 1..Len(code_routes) :
          /\ \E p \in 1..Len(visited) : StoredUnder(p, code_routes[i].key)
          /\ code_routes[i].params = Range(LastDef(code_routes[i].key).args)
          /\ Reported("extra-in-code", code_routes[i].key)
                \subseteq Range(LastDef(code_routes[i].key).args)
    /\ \A p \in 1..Len(visited) :
          IsHandler(p) /\ RoutePath(RouteArgs(p), p).exc = "none" =>
              RoutePath(RouteArgs(p), p).key \in Keys(code_routes)

C10_Witness ==
    /\ Returned
    /\ Len(visited) = 2
    /\ DefAt(1).name = create_user
    /\ DefAt(2).name = n_update_user
    /\ code_routes = <<[key |-> StrKey(s_user), params |-> {username, email}]>>
    /\ StrKey(s_user) \in Keys(spec_endpoints)
    /\ Lookup(spec_endpoints, StrKey(s_user)) = {username, email}
    /\ result.pass

====
